---- MODULE Spec2Model ----
(***************************************************************************)
(* azure-vm-reports: the report pipeline of src/azure_vm_reports.py and    *)
(* the output parsers of src/ansible_callbacks.py.                         *)
(*                                                                         *)
(* Python text is modelled as a sequence of one-character strings, so that *)
(* lower(), upper(), replace(), int(), str() and the regular expressions   *)
(* are computed character by character, as the interpreter does.           *)
(***************************************************************************)
EXTENDS Integers, Sequences, FiniteSets, TLC

VARIABLES
    pc,          \* position of __main__
    fs,          \* which of the three files can be opened
    csvFile,     \* the hosts CSV: [header, rows]
    playbook,    \* the playbook: the declared task names of playbook[0]["tasks"]
    fields,      \* the predicate mapping handed to filter_hosts
    registry,    \* Azure.hosts: ordered dict name -> Host
    hosts,       \* the filtered dict (its keys, in order; values live in registry)
    stderr,      \* diagnostics printed
    exitCode,    \* process exit status, or NoExit
    engineRan,   \* executor.run() was entered
    nEvents,     \* completion events delivered so far
    event,       \* the completion event delivered last
    raised,      \* the exception the last call raised ("none" when it returned)
    last,        \* per (host, task key): the event recorded last
    report,      \* the report file: NoFile or its rows
    inventory,   \* the rendered inventory file: NoFile or its entries
    sample,      \* the pieces the parser's input text is made of
    stdout,      \* input text of the parser under test
    parsed       \* what the parser returned for it

vars == <<pc, fs, csvFile, playbook, fields, registry, hosts, stderr, exitCode,
          engineRan, nEvents, event, raised, last, report, inventory, sample,
          stdout, parsed>>

----------------------------------------------------------------------------
(* Bounds *)

MaxHosts == 2
MaxEvents == 2
MaxGB == 2

----------------------------------------------------------------------------
(* Python values *)

\* None where a text value is expected: no text is a sequence holding "None"
None == <<"None">>
\* str(None)
StrNone == <<"N", "o", "n", "e">>

\* dict as a sequence of [key, val] in insertion order
DictKeys(d) == [i \in 1..Len(d) |-> d[i].key]
DictHas(d, k) == \E i \in 1..Len(d) : d[i].key = k
DictIndex(d, k) == CHOOSE i \in 1..Len(d) : d[i].key = k
DictGet(d, k) == d[DictIndex(d, k)].val
DictSet(d, k, v) ==
    IF DictHas(d, k)
    THEN [d EXCEPT ![DictIndex(d, k)].val = v]
    ELSE Append(d, [key |-> k, val |-> v])

----------------------------------------------------------------------------
(* Characters *)

UpperLetters == <<"A","B","C","D","E","F","G","H","I","J","K","L","M",
                  "N","O","P","Q","R","S","T","U","V","W","X","Y","Z">>
LowerLetters == <<"a","b","c","d","e","f","g","h","i","j","k","l","m",
                  "n","o","p","q","r","s","t","u","v","w","x","y","z">>
DigitChars == <<"0","1","2","3","4","5","6","7","8","9">>

IsDigit(c) == \E i \in 1..10 : DigitChars[i] = c
IsSpace(c) == c \in {" ", "\t", "\n"}
DigitVal(c) == (CHOOSE i \in 1..10 : DigitChars[i] = c) - 1

LowerChar(c) ==
    IF \E i \in 1..26 : UpperLetters[i] = c
    THEN LowerLetters[CHOOSE i \in 1..26 : UpperLetters[i] = c]
    ELSE c
UpperChar(c) ==
    IF \E i \in 1..26 : LowerLetters[i] = c
    THEN UpperLetters[CHOOSE i \in 1..26 : LowerLetters[i] = c]
    ELSE c

\* str.lower(), str.upper(), str.replace(a, b) for one-character a, b
Lower(s) == [i \in 1..Len(s) |-> LowerChar(s[i])]
Upper(s) == [i \in 1..Len(s) |-> UpperChar(s[i])]
Replace(s, a, b) == [i \in 1..Len(s) |-> IF s[i] = a THEN b ELSE s[i]]

\* int(s) for a run of digits
RECURSIVE ParseInt(_)
ParseInt(s) ==
    IF Len(s) = 0 THEN 0
    ELSE 10 * ParseInt(SubSeq(s, 1, Len(s) - 1)) + DigitVal(s[Len(s)])

\* str(n) for n >= 0
RECURSIVE Str(_)
Str(n) ==
    IF n < 10 THEN <<DigitChars[n + 1]>>
    ELSE Str(n \div 10) \o <<DigitChars[(n % 10) + 1]>>

----------------------------------------------------------------------------
(* ansible_callbacks.py *)

\* end of the longest run of characters satisfying a class, starting at i
RECURSIVE DigitsEnd(_, _)
DigitsEnd(s, i) ==
    IF i <= Len(s) /\ IsDigit(s[i]) THEN DigitsEnd(s, i + 1) ELSE i
RECURSIVE SpaceEnd(_, _)
SpaceEnd(s, i) ==
    IF i <= Len(s) /\ IsSpace(s[i]) THEN SpaceEnd(s, i + 1) ELSE i
RECURSIVE NumberEnd(_, _)
NumberEnd(s, i) ==
    IF i <= Len(s) /\ (IsDigit(s[i]) \/ s[i] = ".") THEN NumberEnd(s, i + 1) ELSE i

\* the literal lit stands in s at position i
LitAt(s, i, lit) ==
    /\ i + Len(lit) - 1 <= Len(s)
    /\ \A j \in 1..Len(lit) : s[i + j - 1] = lit[j]

\* round(n * 10 ** -6): the float product rounded half to even
\* the product truncated instead of rounded
RoundFloor(n) == n \div 1000000
Round(n) ==
    LET q == n \div 1000000
        r == n % 1000000
    IN  IF r < 500000 THEN q
        ELSE IF r > 500000 THEN q + 1
        ELSE IF q % 2 = 0 THEN q ELSE q + 1

\* (\d+)\s*kB matches at i
RamMatchAt(s, i) ==
    /\ i <= Len(s)
    /\ IsDigit(s[i])
    /\ LitAt(s, SpaceEnd(s, DigitsEnd(s, i)), <<"k", "B">>)

ram_amount(s) ==
    LET at == {i \in 1..Len(s) : RamMatchAt(s, i)}
    IN  IF at = {} THEN None
        ELSE LET i == CHOOSE x \in at : \A y \in at : x <= y
                 g == SubSeq(s, i, DigitsEnd(s, i) - 1)
             IN  Str(Round(ParseInt(g))) \o <<" ", "G", "B">>

\* CPU\(s\):\s*(\d+) matches at i
CpuLit == <<"C", "P", "U", "(", "s", ")", ":">>
CpuMatchAt(s, i) ==
    /\ LitAt(s, i, CpuLit)
    /\ DigitsEnd(s, SpaceEnd(s, i + Len(CpuLit))) > SpaceEnd(s, i + Len(CpuLit))

cpu_number(s) ==
    LET at == {i \in 1..Len(s) : CpuMatchAt(s, i)}
    IN  IF at = {} THEN None
        ELSE LET i == CHOOSE x \in at : \A y \in at : x <= y
                 b == SpaceEnd(s, i + Len(CpuLit))
             IN  SubSeq(s, b, DigitsEnd(s, b) - 1)
                     \o <<" ", "C", "P", "U", "(", "s", ")">>

\* <word>\s*([\d.]+) matches at i
UsageMatchAt(s, i, word) ==
    /\ LitAt(s, i, word)
    /\ NumberEnd(s, SpaceEnd(s, i + Len(word))) > SpaceEnd(s, i + Len(word))

Usage(s, word) ==
    LET at == {i \in 1..Len(s) : UsageMatchAt(s, i, word)}
    IN  IF at = {} THEN None
        ELSE LET i == CHOOSE x \in at : \A y \in at : x <= y
                 b == SpaceEnd(s, i + Len(word))
             IN  SubSeq(s, b, NumberEnd(s, b) - 1) \o <<"%">>

peak_ram_usage(s) == Usage(s, <<"M", "E", "M">>)
peak_cpu_usage(s) == Usage(s, <<"C", "P", "U">>)

----------------------------------------------------------------------------
(* Regular expressions: the part of Python's syntax the predicates use:     *)
(* literals, ".", the escapes \d \D \s \S \<punctuation>, and "+".          *)

\* re.compile: the atoms of the pattern source, from position i
RECURSIVE Compile(_, _)
Compile(src, i) ==
    IF i > Len(src) THEN <<>>
    ELSE LET esc == src[i] = "\\" /\ i < Len(src)
             w == IF esc THEN 2 ELSE 1
             kind == IF esc
                     THEN CASE src[i + 1] = "d" -> "digit"
                            [] src[i + 1] = "D" -> "nondigit"
                            [] src[i + 1] = "s" -> "space"
                            [] src[i + 1] = "S" -> "nonspace"
                            [] OTHER -> "lit"
                     ELSE IF src[i] = "." THEN "any" ELSE "lit"
             ch == IF esc THEN src[i + 1] ELSE src[i]
             plus == i + w <= Len(src) /\ src[i + w] = "+"
         IN  <<[kind |-> kind, ch |-> ch, plus |-> plus]>>
                 \o Compile(src, i + w + (IF plus THEN 1 ELSE 0))

AtomMatches(a, c) ==
    CASE a.kind = "digit" -> IsDigit(c)
      [] a.kind = "nondigit" -> ~IsDigit(c)
      [] a.kind = "space" -> IsSpace(c)
      [] a.kind = "nonspace" -> ~IsSpace(c)
      [] a.kind = "any" -> c # "\n"
      [] OTHER -> a.ch = c

\* the atoms from p on match text from position i on (a prefix of it)
RECURSIVE MatchFrom(_, _, _, _)
MatchFrom(atoms, p, text, i) ==
    IF p > Len(atoms) THEN TRUE
    ELSE IF atoms[p].plus
    THEN \E n \in 1..(Len(text) - i + 1) :
            /\ \A j \in i..(i + n - 1) : AtomMatches(atoms[p], text[j])
            /\ MatchFrom(atoms, p + 1, text, i + n)
    ELSE /\ i <= Len(text)
         /\ AtomMatches(atoms[p], text[i])
         /\ MatchFrom(atoms, p + 1, text, i + 1)

\* re.match(pattern, text) is not None
ReMatch(pattern, text) == MatchFrom(Compile(pattern, 1), 1, text, 1)

----------------------------------------------------------------------------
(* Texts of the program and of its inputs *)

T_name == <<"n", "a", "m", "e">>
T_resource_group == <<"r", "e", "s", "o", "u", "r", "c", "e", "_", "g", "r", "o", "u", "p">>
T_public_ip_address == <<"p", "u", "b", "l", "i", "c", "_", "i", "p", "_", "a", "d", "d", "r", "e", "s", "s">>
T_status == <<"s", "t", "a", "t", "u", "s">>
T_operating_system == <<"o", "p", "e", "r", "a", "t", "i", "n", "g", "_", "s", "y", "s", "t", "e", "m">>
T_location == <<"l", "o", "c", "a", "t", "i", "o", "n">>

T_ram_amount == <<"r", "a", "m", "_", "a", "m", "o", "u", "n", "t">>
T_cpu_number == <<"c", "p", "u", "_", "n", "u", "m", "b", "e", "r">>
T_peak_ram_usage == <<"p", "e", "a", "k", "_", "r", "a", "m", "_", "u", "s", "a", "g", "e">>
T_peak_cpu_usage == <<"p", "e", "a", "k", "_", "c", "p", "u", "_", "u", "s", "a", "g", "e">>

\* the predicates of __main__
P_rg_production == <<"r", "g", "-", "p", "r", "o", "d", "u", "c", "t", "i", "o", "n">>
P_running == <<"r", "u", "n", "n", "i", "n", "g">>
P_linux == <<"l", "i", "n", "u", "x">>
P_ip == <<"\\", "d", "+", "\\", ".", "\\", "d", "+", "\\", ".", "\\", "d", "+", "\\", ".", "\\", "d", "+">>

MainFields ==
    [is_none |-> FALSE,
     items |-> <<[key |-> T_resource_group, val |-> P_rg_production],
                 [key |-> T_status, val |-> P_running],
                 [key |-> T_operating_system, val |-> P_linux],
                 [key |-> T_public_ip_address, val |-> P_ip]>>]

\* the hosts CSV as exported: header line and cell values
H_NAME == <<"N", "A", "M", "E">>
H_RESOURCE_GROUP == <<"R", "E", "S", "O", "U", "R", "C", "E", " ", "G", "R", "O", "U", "P">>
H_STATUS == <<"S", "T", "A", "T", "U", "S">>
H_OPERATING_SYSTEM == <<"O", "P", "E", "R", "A", "T", "I", "N", "G", " ", "S", "Y", "S", "T", "E", "M">>
H_PUBLIC_IP_ADDRESS == <<"P", "U", "B", "L", "I", "C", " ", "I", "P", " ", "A", "D", "D", "R", "E", "S", "S">>
CsvHeader == <<H_NAME, H_RESOURCE_GROUP, H_STATUS, H_OPERATING_SYSTEM, H_PUBLIC_IP_ADDRESS>>

V_RG == <<"R", "G", "-", "P", "r", "o", "d", "u", "c", "t", "i", "o", "n">>
V_Running == <<"R", "u", "n", "n", "i", "n", "g">>
V_Stopped == <<"S", "t", "o", "p", "p", "e", "d">>
V_Linux == <<"L", "i", "n", "u", "x">>
HostName(i) == <<"v", "m">> \o Str(i)
HostIp(i) == <<"1", "0", ".", "0", ".", "0", ".">> \o Str(i)

\* a data row of host i: running, stopped, or cut short after the resource group
CsvRow(i, variant) ==
    CASE variant = "running" -> <<HostName(i), V_RG, V_Running, V_Linux, HostIp(i)>>
      [] variant = "stopped" -> <<HostName(i), V_RG, V_Stopped, V_Linux, HostIp(i)>>
      [] OTHER -> <<HostName(i), V_RG>>
RowVariants == {"running", "stopped", "short"}

CsvFiles ==
    {[header |-> CsvHeader, rows |-> [i \in 1..Len(v) |-> CsvRow(i, v[i])]] :
        v \in UNION {[1..m -> RowVariants] : m \in 0..MaxHosts}}

T_Ram_Amount == <<"R", "a", "m", "_", "A", "m", "o", "u", "n", "t">>
T_uptime == <<"u", "p", "t", "i", "m", "e">>
Playbooks == {<<T_ram_amount>>, <<T_Ram_Amount>>, <<T_ram_amount, T_cpu_number>>}

\* what the engine hands over as result._result
S_mem == <<"M", "e", "m", "T", "o", "t", "a", "l", ":", " ", "8", "0", "0", "0", "0", "0", "0", " ", "k", "B">>
S_cpu == <<"C", "P", "U", "(", "s", ")", ":", " ", "4">>
OkResult == [rc |-> 0, stdout |-> S_mem]
FailedResult == [rc |-> 2, stdout |-> S_cpu]
UnreachableResult == [unreachable |-> TRUE]
GhostHost == <<"g", "h", "o", "s", "t">>

\* str(result._result.get("rc")), str(result._result.get("stdout"))
StrRc(result) == IF "rc" \in DOMAIN result THEN Str(result.rc) ELSE StrNone
StrStdout(result) == IF "stdout" \in DOMAIN result THEN result.stdout ELSE StrNone

----------------------------------------------------------------------------
(* Azure *)

\* the second line of the CSV, normalised
FieldList(header) == [i \in 1..Len(header) |-> Replace(Lower(header[i]), " ", "_")]

\* csv.DictReader: a row shorter than the field list leaves None behind
DictReader(fieldlist, row) ==
    [i \in 1..Len(fieldlist) |->
        [key |-> fieldlist[i], val |-> IF i <= Len(row) THEN row[i] ELSE None]]

RECURSIVE HostsOfRows(_, _, _)
HostsOfRows(fieldlist, rows, i) ==
    IF i = 0 THEN <<>>
    ELSE LET row == DictReader(fieldlist, rows[i])
         IN  DictSet(HostsOfRows(fieldlist, rows, i - 1), DictGet(row, T_name),
                     [attrs |-> row, tasks |-> <<>>])

load_from_csv(file) == HostsOfRows(FieldList(file.header), file.rows, Len(file.rows))

NewTask(name) ==
    [name |-> name, callback_result |-> None, exit_status |-> None, task_failed |-> "None"]

RECURSIVE TasksOf(_, _)
TasksOf(names, i) ==
    IF i = 0 THEN <<>>
    ELSE DictSet(TasksOf(names, i - 1), Lower(names[i]), NewTask(names[i]))

load_playbook(reg, names) ==
    [i \in 1..Len(reg) |->
        [key |-> reg[i].key, val |-> [reg[i].val EXCEPT !.tasks = TasksOf(names, Len(names))]]]

\* Host.has_fields from predicate i on: "True", "False" or the exception raised
RECURSIVE has_fields(_, _, _)
has_fields(host, items, i) ==
    IF i > Len(items) THEN "True"
    ELSE LET k == Lower(items[i].key)
         IN  IF ~DictHas(host.attrs, k) THEN "AttributeError"
             ELSE IF DictGet(host.attrs, k) = None THEN "AttributeError"
             ELSE IF ~ReMatch(Lower(items[i].val), Lower(DictGet(host.attrs, k)))
             THEN "False"
             ELSE has_fields(host, items, i + 1)

\* Azure.filter_hosts over the hosts from i on: [raised, hosts]
RECURSIVE FilterFrom(_, _, _)
FilterFrom(reg, items, i) ==
    IF i > Len(reg) THEN [raised |-> "none", hosts |-> <<>>]
    ELSE LET m == has_fields(reg[i].val, items, 1)
             rest == FilterFrom(reg, items, i + 1)
         IN  IF m = "AttributeError" THEN [raised |-> m, hosts |-> <<>>]
             ELSE IF rest.raised # "none" THEN rest
             ELSE IF m = "True"
             THEN [raised |-> "none",
                   hosts |-> <<DictGet(reg[i].val.attrs, T_name)>> \o rest.hosts]
             ELSE rest

filter_hosts(reg, flds) ==
    IF flds.is_none THEN [raised |-> "none", hosts |-> DictKeys(reg)]
    ELSE FilterFrom(reg, flds.items, 1)

\* the inventory entry generate_yaml renders for a host
KeyBase == <<"/", "v", "a", "r", "/", "l", "i", "b", "/", "j", "e", "n", "k", "i", "n", "s", "/", ".", "t", "s", "/", "a", "d", "m", "i", "n", "/", "r", "s", "a", "/", "a", "z", "u", "r", "e", "/">>
T_ubuntu == <<"u", "b", "u", "n", "t", "u">>
InventoryEntry(host) ==
    LET n == DictGet(host.attrs, T_name)
    IN  [name |-> n,
         ansible_host |-> DictGet(host.attrs, T_public_ip_address),
         ansible_port |-> 22,
         ansible_user |-> T_ubuntu,
         ansible_ssh_private_key_file |-> KeyBase \o n \o <<"/">> \o n]

----------------------------------------------------------------------------
(* ResultsCollector *)

NoEvent == [kind |-> "none", host |-> <<>>, task |-> <<>>]
InSeq(x, q) == \E i \in 1..Len(q) : q[i] = x

\* self.hosts[str(result._host)]
get_host(hs, ev) == IF InSeq(ev.host, hs) THEN "found" ELSE "KeyError"

\* self.hosts[str(result._host)].tasks[str(result._task.name)]
get_task(hs, reg, ev) ==
    IF ~InSeq(ev.host, hs) THEN "KeyError"
    ELSE IF ~DictHas(DictGet(reg, ev.host).tasks, ev.task) THEN "KeyError"
    ELSE "found"

TaskOf(reg, h, k) == DictGet(DictGet(reg, h).tasks, k)
SetTask(reg, h, k, t) ==
    DictSet(reg, h, [DictGet(reg, h) EXCEPT !.tasks = DictSet(@, k, t)])

\* getattr(ansible_callbacks, name)
HasCallback(name) ==
    name \in {T_ram_amount, T_cpu_number, T_peak_ram_usage, T_peak_cpu_usage}
Callback(name, text) ==
    CASE name = T_ram_amount -> ram_amount(text)
      [] name = T_cpu_number -> cpu_number(text)
      [] name = T_peak_ram_usage -> peak_ram_usage(text)
      [] OTHER -> peak_cpu_usage(text)

Diag(msg, arg) == [msg |-> msg, arg |-> arg]

\* each handler: [raised, registry, diag] for the registry it is handed
v2_runner_on_ok(hs, reg, ev) ==
    IF get_task(hs, reg, ev) = "KeyError"
    THEN [raised |-> "KeyError", registry |-> reg, diag |-> <<>>]
    ELSE LET task == TaskOf(reg, ev.host, ev.task)
         IN  IF ~HasCallback(task.name)
             THEN [raised |-> "AttributeError", registry |-> reg, diag |-> <<>>]
             ELSE [raised |-> "none",
                   registry |-> SetTask(reg, ev.host, ev.task,
                       [task EXCEPT !.callback_result = Callback(task.name, StrStdout(ev.result)),
                                    !.exit_status = StrRc(ev.result),
                                    !.task_failed = "False"]),
                   diag |-> <<>>]

\* a failure handler that keeps an exit_status already recorded
v2_runner_on_failed_keep(hs, reg, ev) ==
    IF get_task(hs, reg, ev) = "KeyError"
    THEN [raised |-> "KeyError", registry |-> reg, diag |-> <<>>]
    ELSE LET task == TaskOf(reg, ev.host, ev.task)
         IN  [raised |-> "none",
              registry |-> SetTask(reg, ev.host, ev.task,
                  [task EXCEPT !.exit_status =
                                   IF @ = None THEN StrRc(ev.result) ELSE @,
                               !.task_failed = "True"]),
              diag |-> <<Diag("Error: task failed", task.name)>>]

v2_runner_on_failed(hs, reg, ev) ==
    IF get_task(hs, reg, ev) = "KeyError"
    THEN [raised |-> "KeyError", registry |-> reg, diag |-> <<>>]
    ELSE LET task == TaskOf(reg, ev.host, ev.task)
         IN  [raised |-> "none",
              registry |-> SetTask(reg, ev.host, ev.task,
                  [task EXCEPT !.exit_status = StrRc(ev.result),
                               !.task_failed = "True"]),
              diag |-> <<Diag("Error: task failed", task.name)>>]

\* an unreachable handler that marks the host's tasks before it looks the task up
FailAll(tasks) ==
    [i \in 1..Len(tasks) |-> [tasks[i] EXCEPT !.val.task_failed = "True"]]

v2_runner_on_unreachable_all(hs, reg, ev) ==
    IF get_host(hs, ev) = "KeyError"
    THEN [raised |-> "KeyError", registry |-> reg, diag |-> <<>>]
    ELSE IF get_task(hs, reg, ev) = "KeyError"
    THEN [raised |-> "KeyError",
          registry |-> DictSet(reg, ev.host,
                               [DictGet(reg, ev.host) EXCEPT !.tasks = FailAll(@)]),
          diag |-> <<>>]
    ELSE LET task == TaskOf(reg, ev.host, ev.task)
         IN  [raised |-> "none",
              registry |-> SetTask(reg, ev.host, ev.task,
                  [task EXCEPT !.exit_status = StrRc(ev.result),
                               !.task_failed = "True"]),
              diag |-> <<Diag("Error: host unreachable", ev.host)>>]

v2_runner_on_unreachable(hs, reg, ev) ==
    IF get_host(hs, ev) = "KeyError"
    THEN [raised |-> "KeyError", registry |-> reg, diag |-> <<>>]
    ELSE IF get_task(hs, reg, ev) = "KeyError"
    THEN [raised |-> "KeyError", registry |-> reg, diag |-> <<>>]
    ELSE LET task == TaskOf(reg, ev.host, ev.task)
         IN  [raised |-> "none",
              registry |-> SetTask(reg, ev.host, ev.task,
                  [task EXCEPT !.exit_status = StrRc(ev.result),
                               !.task_failed = "True"]),
              diag |-> <<Diag("Error: host unreachable", ev.host)>>]

----------------------------------------------------------------------------
(* The report of __main__ *)

NoFile == [exists |-> FALSE, rows |-> <<>>]
File(rows) == [exists |-> TRUE, rows |-> rows]
ReportFields == <<T_name, T_resource_group, T_public_ip_address>>

\* csv.writer writes None as an empty field
CsvField(v) == IF v = None THEN <<>> ELSE v
HeaderField(k) == Replace(Upper(k), "_", " ")

HostAttrs(host) == [j \in 1..Len(ReportFields) |-> DictGet(host.attrs, ReportFields[j])]
HostResults(host, callbacks) ==
    [j \in 1..Len(callbacks) |-> DictGet(host.tasks, callbacks[j]).callback_result]

\* the rows written for the hosts from i on; values is the list the loop extends
RECURSIVE DataRows(_, _, _, _, _)
DataRows(reg, hs, callbacks, i, values) ==
    IF i > Len(hs) THEN <<>>
    ELSE LET host == DictGet(reg, hs[i])
             vals == values \o HostAttrs(host) \o HostResults(host, callbacks)
         IN  <<[j \in 1..Len(vals) |-> CsvField(vals[j])]>>
                 \o DataRows(reg, hs, callbacks, i + 1, vals)

ReportRows(reg, hs) ==
    LET callbacks == DictKeys(DictGet(reg, hs[1]).tasks)
        head == ReportFields \o callbacks
    IN  <<[j \in 1..Len(head) |-> HeaderField(head[j])]>>
            \o DataRows(reg, hs, callbacks, 1, <<>>)

----------------------------------------------------------------------------
(* __main__ *)

Running == <<>>
Exited(code) == <<code>>

mainVars == <<pc, fs, csvFile, playbook, fields, registry, hosts, stderr, exitCode,
              engineRan, nEvents, event, raised, last, report, inventory>>
parserVars == <<sample, stdout, parsed>>

\* print(..., file=sys.stderr); sys.exit(1)
Fatal(msg) ==
    /\ stderr' = Append(stderr, Diag(msg, <<>>))
    /\ exitCode' = Exited(1)
    /\ pc' = "exit"

\* an exception nothing catches ends the process with status 1
Uncaught(exc) ==
    /\ raised' = exc
    /\ exitCode' = Exited(1)
    /\ pc' = "exit"

LoadFromCsv ==
    /\ pc = "load_from_csv"
    /\ IF fs.csv
       THEN /\ registry' = load_from_csv(csvFile)
            /\ pc' = "load_playbook"
            /\ UNCHANGED <<stderr, exitCode>>
       ELSE /\ Fatal("Open Azure document failed")
            /\ UNCHANGED registry
    /\ UNCHANGED <<fs, csvFile, playbook, fields, hosts, engineRan, nEvents, event,
                   raised, last, report, inventory, parserVars>>

\* load_playbook without its sys.exit(1)
LoadPlaybookOn ==
    /\ pc = "load_playbook"
    /\ IF fs.playbook
       THEN /\ registry' = load_playbook(registry, playbook)
            /\ UNCHANGED <<stderr, exitCode>>
       ELSE /\ stderr' = Append(stderr, Diag("Open playbook failed", <<>>))
            /\ UNCHANGED <<registry, exitCode>>
    /\ pc' = "generate_yaml"
    /\ UNCHANGED <<fs, csvFile, playbook, fields, hosts, engineRan, nEvents, event,
                   raised, last, report, inventory, parserVars>>

LoadPlaybook ==
    /\ pc = "load_playbook"
    /\ IF fs.playbook
       THEN /\ registry' = load_playbook(registry, playbook)
            /\ pc' = "generate_yaml"
            /\ UNCHANGED <<stderr, exitCode>>
       ELSE /\ Fatal("Open playbook failed")
            /\ UNCHANGED registry
    /\ UNCHANGED <<fs, csvFile, playbook, fields, hosts, engineRan, nEvents, event,
                   raised, last, report, inventory, parserVars>>

GenerateYaml ==
    /\ pc = "generate_yaml"
    /\ IF ~fs.inventory
       THEN /\ Fatal("Open inventory failed")
            /\ UNCHANGED <<hosts, inventory, raised>>
       ELSE LET f == filter_hosts(registry, fields)
            IN  IF f.raised # "none"
                THEN /\ Uncaught(f.raised)
                     /\ inventory' = File(<<>>)
                     /\ UNCHANGED <<hosts, stderr>>
                ELSE /\ hosts' = f.hosts
                     /\ inventory' = File([i \in 1..Len(f.hosts) |->
                                         InventoryEntry(DictGet(registry, f.hosts[i]))])
                     /\ pc' = "executor_run"
                     /\ UNCHANGED <<stderr, exitCode, raised>>
    /\ UNCHANGED <<fs, csvFile, playbook, fields, registry, engineRan, nEvents, event,
                   last, report, parserVars>>

\* executor.run() is entered; the collector holds the filtered hosts
ExecutorRun ==
    /\ pc = "executor_run"
    /\ engineRan' = TRUE
    /\ pc' = "events"
    /\ UNCHANGED <<fs, csvFile, playbook, fields, registry, hosts, stderr, exitCode,
                   nEvents, event, raised, last, report, inventory, parserVars>>

\* the hosts and task names the engine's events can name
EventHosts == {DictKeys(registry)[i] : i \in 1..Len(registry)} \cup {GhostHost}
EventTasks == {playbook[i] : i \in 1..Len(playbook)} \cup {T_uptime}

\* one completion event is delivered; an exception of the handler goes to the
\* engine, which calls the next handler all the same
Deliver(ev, out) ==
    /\ pc = "events"
    /\ nEvents < MaxEvents
    /\ nEvents' = nEvents + 1
    /\ event' = ev
    /\ raised' = out.raised
    /\ registry' = out.registry
    /\ stderr' = stderr \o out.diag
    /\ last' = IF out.raised = "none"
               THEN [p \in DOMAIN last \cup {<<ev.host, ev.task>>} |->
                        IF p = <<ev.host, ev.task>> THEN ev ELSE last[p]]
               ELSE last
    /\ UNCHANGED <<pc, fs, csvFile, playbook, fields, hosts, exitCode, engineRan,
                   report, inventory, parserVars>>

RunnerOnOk ==
    \E h \in EventHosts, t \in EventTasks :
        LET ev == [kind |-> "ok", host |-> h, task |-> t, result |-> OkResult]
        IN  Deliver(ev, v2_runner_on_ok(hosts, registry, ev))

RunnerOnFailed ==
    \E h \in EventHosts, t \in EventTasks :
        LET ev == [kind |-> "failed", host |-> h, task |-> t, result |-> FailedResult]
        IN  Deliver(ev, v2_runner_on_failed(hosts, registry, ev))

RunnerOnUnreachable ==
    \E h \in EventHosts, t \in EventTasks :
        LET ev == [kind |-> "unreachable", host |-> h, task |-> t, result |-> UnreachableResult]
        IN  Deliver(ev, v2_runner_on_unreachable(hosts, registry, ev))

\* executor.run() has returned
\* the report written without the empty-hosts exit
WriteReportAlways ==
    /\ pc = "events"
    /\ report' = IF hosts = <<>>
                 THEN File(<<[j \in 1..Len(ReportFields) |-> HeaderField(ReportFields[j])]>>)
                 ELSE File(ReportRows(registry, hosts))
    /\ exitCode' = Exited(0)
    /\ pc' = "exit"
    /\ UNCHANGED <<fs, csvFile, playbook, fields, registry, hosts, stderr, engineRan,
                   nEvents, event, raised, last, inventory, parserVars>>

WriteReport ==
    /\ pc = "events"
    /\ report' = IF hosts = <<>> THEN report ELSE File(ReportRows(registry, hosts))
    /\ exitCode' = Exited(0)
    /\ pc' = "exit"
    /\ UNCHANGED <<fs, csvFile, playbook, fields, registry, hosts, stderr, engineRan,
                   nEvents, event, raised, last, inventory, parserVars>>

NoSample == [before |-> <<>>, kb |-> 0, gap |-> <<>>, unit |-> <<>>]

Init ==
    /\ pc = "load_from_csv"
    /\ fs \in [csv : BOOLEAN, playbook : BOOLEAN, inventory : BOOLEAN]
    /\ csvFile \in CsvFiles
    /\ playbook \in Playbooks
    /\ fields = MainFields
    /\ registry = <<>>
    /\ hosts = <<>>
    /\ stderr = <<>>
    /\ exitCode = Running
    /\ engineRan = FALSE
    /\ nEvents = 0
    /\ event = NoEvent
    /\ raised = "none"
    /\ last = [p \in {} |-> NoEvent]
    /\ report = NoFile
    /\ inventory = NoFile
    /\ sample = NoSample
    /\ stdout = <<>>
    /\ parsed = None

Next ==
    \/ LoadFromCsv
    \/ LoadPlaybook
    \/ GenerateYaml
    \/ ExecutorRun
    \/ RunnerOnOk
    \/ RunnerOnFailed
    \/ RunnerOnUnreachable
    \/ WriteReport

Spec == Init /\ [][Next]_vars

----------------------------------------------------------------------------
(* filter_hosts on its own: any inventory, any predicate mapping *)

T_Status == <<"S", "t", "a", "t", "u", "s">>
P_RUN == <<"R", "U", "N">>
P_stop == <<"s", "t", "o", "p">>
P_unning == <<"u", "n", "n", "i", "n", "g">>
P_nondigit == <<"\\", "D">>
P_digit == <<"\\", "d">>
P_r_n == <<"r", ".", "n", "+">>
P_win == <<"w", "i", "n">>
StatusPatterns == {P_running, P_RUN, P_stop, P_unning, P_nondigit, P_digit, P_r_n}
SystemPatterns == {P_linux, P_win}

Pred(k, v) == [key |-> k, val |-> v]
FieldMaps ==
    {[is_none |-> TRUE, items |-> <<>>], [is_none |-> FALSE, items |-> <<>>],
     [is_none |-> FALSE, items |-> <<Pred(T_location, P_linux)>>]}
    \cup {[is_none |-> FALSE, items |-> <<Pred(k, p)>>] :
            k \in {T_status, T_Status}, p \in StatusPatterns}
    \cup {[is_none |-> FALSE, items |-> <<Pred(T_status, p), Pred(T_operating_system, q)>>] :
            p \in StatusPatterns, q \in SystemPatterns}
    \cup {[is_none |-> FALSE, items |-> <<Pred(T_operating_system, q), Pred(T_status, p)>>] :
            p \in StatusPatterns, q \in SystemPatterns}

InitFilter ==
    /\ pc = "filter_hosts"
    /\ fs = [csv |-> TRUE, playbook |-> TRUE, inventory |-> TRUE]
    /\ csvFile \in CsvFiles
    /\ playbook = <<T_ram_amount>>
    /\ fields \in FieldMaps
    /\ registry = load_playbook(load_from_csv(csvFile), playbook)
    /\ hosts = <<>>
    /\ stderr = <<>>
    /\ exitCode = Running
    /\ engineRan = FALSE
    /\ nEvents = 0
    /\ event = NoEvent
    /\ raised = "none"
    /\ last = [p \in {} |-> NoEvent]
    /\ report = NoFile
    /\ inventory = NoFile
    /\ sample = NoSample
    /\ stdout = <<>>
    /\ parsed = None

FilterHosts ==
    /\ pc = "filter_hosts"
    /\ LET f == filter_hosts(registry, fields)
       IN  /\ hosts' = f.hosts
           /\ raised' = f.raised
    /\ pc' = "filtered"
    /\ UNCHANGED <<fs, csvFile, playbook, fields, registry, stderr, exitCode, engineRan,
                   nEvents, event, last, report, inventory, parserVars>>

NextFilter == FilterHosts

SpecFilter == InitFilter /\ [][NextFilter]_vars

----------------------------------------------------------------------------
(* ram_amount on its own *)

B_MemTotal == <<"M", "e", "m", "T", "o", "t", "a", "l", ":", " ">>
B_seven == <<"7", " ">>
B_three_kB == <<"3", " ", "k", "B", " ">>
U_kB == <<"k", "B">>
U_KB == <<"K", "B">>
U_GB == <<"G", "B">>

Samples ==
    [before : {<<>>, B_MemTotal, B_seven, B_three_kB},
     kb : {g * 1000000 + d : g \in 0..MaxGB, d \in {0, 499999, 500000, 500001}}
              \cup {16384, 8000000},
     gap : {<<>>, <<" ">>, <<" ", "\t">>},
     unit : {U_kB, U_KB, U_GB}]

TextOf(smp) == smp.before \o Str(smp.kb) \o smp.gap \o smp.unit

InitRam ==
    /\ pc = "ram_amount"
    /\ fs = [csv |-> TRUE, playbook |-> TRUE, inventory |-> TRUE]
    /\ csvFile = [header |-> CsvHeader, rows |-> <<>>]
    /\ playbook = <<T_ram_amount>>
    /\ fields = MainFields
    /\ registry = <<>>
    /\ hosts = <<>>
    /\ stderr = <<>>
    /\ exitCode = Running
    /\ engineRan = FALSE
    /\ nEvents = 0
    /\ event = NoEvent
    /\ raised = "none"
    /\ last = [p \in {} |-> NoEvent]
    /\ report = NoFile
    /\ inventory = NoFile
    /\ sample \in Samples
    /\ stdout = TextOf(sample)
    /\ parsed = None

RamAmount ==
    /\ pc = "ram_amount"
    /\ parsed' = ram_amount(stdout)
    /\ pc' = "parsed"
    /\ UNCHANGED <<fs, csvFile, playbook, fields, registry, hosts, stderr, exitCode,
                   engineRan, nEvents, event, raised, last, report, inventory,
                   sample, stdout>>

NextRam == RamAmount

SpecRam == InitRam /\ [][NextRam]_vars

----------------------------------------------------------------------------
(* Claims *)

HostSet == {hosts[i] : i \in 1..Len(hosts)}
Callbacks == DictKeys(DictGet(registry, hosts[1]).tasks)
\* the row a host should get: its three attributes, then its results
OwnRow(h) ==
    LET host == DictGet(registry, h)
        vals == HostAttrs(host) \o HostResults(host, Callbacks)
    IN  [j \in 1..Len(vals) |-> CsvField(vals[j])]
\* the cells the loop appended for the i-th host: the tail of its row
OwnCells(i) ==
    LET row == report.rows[i + 1]
        n == Len(ReportFields) + Len(Callbacks)
    IN  SubSeq(row, Len(row) - n + 1, Len(row))

\* C1: the report holds one data row per filtered host, and each data row is
\* exactly that host's name, resource_group and public_ip_address followed by
\* its callback_result per task in header order: as many fields as the header
\* (3 + number of tasks) and no value of another host.
C1_OneRowPerHost ==
    report.exists =>
        /\ Len(report.rows) = 1 + Len(hosts)
        /\ \A i \in 1..Len(hosts) :
              /\ Len(report.rows[i + 1]) = Len(report.rows[1])
              /\ Len(report.rows[i + 1]) = 3 + Len(Callbacks)
              /\ report.rows[i + 1] = OwnRow(hosts[i])

\* C2: every filtered host appears in the final report, and for every
\* (host, task) pair recorded as failed the callback_result written for it is
\* absent, whatever events were delivered for the pair before.
C2_FailedIsAbsent ==
    report.exists =>
        /\ Len(report.rows) = 1 + Len(hosts)
        /\ \A i \in 1..Len(hosts) :
              /\ OwnCells(i)[1] = hosts[i]
              /\ \A j \in 1..Len(Callbacks) :
                    TaskOf(registry, hosts[i], Callbacks[j]).task_failed = "True"
                        => OwnCells(i)[Len(ReportFields) + j] = <<>>

\* C3: whatever the letter case of a declared task's name, a completion event
\* carrying that name for a filtered host resolves to the TaskResult stored
\* under the lowercased name and is recorded; no lookup error is raised.
C3_DeclaredNameResolves ==
    (/\ event.kind = "ok"
     /\ event.host \in HostSet
     /\ \E i \in 1..Len(playbook) : playbook[i] = event.task)
        => /\ raised = "none"
           /\ TaskOf(registry, event.host, Lower(event.task)).exit_status
                  = StrRc(event.result)

\* the pattern matches at the start of the text, letter case ignored
LowerLiterals(atoms) ==
    [i \in 1..Len(atoms) |->
        IF atoms[i].kind = "lit"
        THEN [atoms[i] EXCEPT !.ch = LowerChar(@)]
        ELSE atoms[i]]
MatchesIgnoreCase(pattern, text) ==
    MatchFrom(LowerLiterals(Compile(pattern, 1)), 1, Lower(text), 1)

HasAttr(host, k) == DictHas(host.attrs, Lower(k)) /\ DictGet(host.attrs, Lower(k)) # None
HasAllAttrs(host, items) == \A i \in 1..Len(items) : HasAttr(host, items[i].key)
MatchesAll(host, items) ==
    \A i \in 1..Len(items) :
        /\ HasAttr(host, items[i].key)
        /\ MatchesIgnoreCase(items[i].val, DictGet(host.attrs, Lower(items[i].key)))
AllPatterns == StatusPatterns \cup SystemPatterns
RegistryNames == {registry[i].key : i \in 1..Len(registry)}

\* C4: where every host carries the named attributes, filter_hosts returns
\* exactly the hosts whose every named attribute matches its pattern (letter
\* case ignored, anchored at the start); replacing one predicate's pattern by
\* one a returned host does not match removes that host; with no predicates
\* every host is returned.
C4_Conjunctive ==
    (/\ pc = "filtered"
     /\ \A i \in 1..Len(registry) : HasAllAttrs(registry[i].val, fields.items))
        => /\ raised = "none"
           /\ HostSet = {h \in RegistryNames : MatchesAll(DictGet(registry, h), fields.items)}
           /\ Len(fields.items) = 0 => HostSet = RegistryNames
           /\ \A h \in HostSet, i \in 1..Len(fields.items), p \in AllPatterns :
                 ~MatchesIgnoreCase(p, DictGet(DictGet(registry, h).attrs,
                                               Lower(fields.items[i].key)))
                     => LET changed == [fields EXCEPT !.items[i].val = p]
                            f == filter_hosts(registry, changed)
                        IN  ~InSeq(h, f.hosts)

\* C5: a completion event naming a host outside the collector's hosts, or a
\* task not attached to that host, raises an error and leaves every
\* TaskResult of the registry as it was.
UnknownPair(ev) ==
    \/ ev.host \notin HostSet
    \/ ~DictHas(DictGet(registry, ev.host).tasks, ev.task)
C5_UnknownRejected ==
    [][(nEvents' = nEvents + 1 /\ UnknownPair(event'))
          => (raised' = "KeyError" /\ registry' = registry)]_vars
C5_Witness ==
    /\ event.kind = "unreachable"
    /\ event.host \in HostSet
    /\ ~DictHas(DictGet(registry, event.host).tasks, event.task)
    /\ raised = "KeyError"
    /\ \E p \in DOMAIN last : p[1] = event.host

\* C6: when the hosts CSV, the playbook or the inventory destination cannot be
\* opened, the diagnostic is printed and the process ends at once with a
\* non-zero status: the engine is never run and no report is written.
Aborted(msg) ==
    /\ pc = "exit"
    /\ exitCode # Running
    /\ exitCode[1] # 0
    /\ ~engineRan
    /\ ~report.exists
    /\ InSeq(Diag(msg, <<>>), stderr)
C6_FatalIO ==
    /\ (~fs.csv /\ pc # "load_from_csv") => Aborted("Open Azure document failed")
    /\ (fs.csv /\ ~fs.playbook /\ pc \notin {"load_from_csv", "load_playbook"})
           => Aborted("Open playbook failed")
    /\ (fs.csv /\ fs.playbook /\ ~fs.inventory
            /\ pc \notin {"load_from_csv", "load_playbook", "generate_yaml"})
           => Aborted("Open inventory failed")
C6_Witness ==
    /\ fs.csv
    /\ ~fs.playbook
    /\ Len(registry) > 0
    /\ pc = "exit"

\* C7: when filtering yields no host, the run ends with status zero and the
\* report file is never opened, whatever the inventory and the engine's events.
C7_EmptySelection ==
    (engineRan /\ hosts = <<>>)
        => /\ ~report.exists
           /\ pc = "exit" => exitCode = Exited(0)
C7_Witness ==
    /\ engineRan
    /\ hosts = <<>>
    /\ Len(registry) > 0
    /\ nEvents > 0
    /\ pc = "exit"

\* C8: for every host/task pair, exit_status and the failed flag are those of
\* the event recorded last for the pair; a failure after a success leaves the
\* failure's.
C8_LastWriteWins ==
    \A p \in DOMAIN last :
        LET task == TaskOf(registry, p[1], p[2])
        IN  /\ task.exit_status = StrRc(last[p].result)
            /\ task.task_failed = IF last[p].kind = "ok" THEN "False" ELSE "True"
C8_Witness ==
    \E p \in DOMAIN last :
        /\ last[p].kind = "failed"
        /\ TaskOf(registry, p[1], p[2]).task_failed = "True"
        /\ TaskOf(registry, p[1], p[2]).callback_result # None

\* the integer of the first "<integer> kB" of a sample's text, by construction
HasOccurrence(smp) == smp.before = B_three_kB \/ smp.unit = U_kB
FirstKB(smp) == IF smp.before = B_three_kB THEN 3 ELSE smp.kb
Nearest(n, kb) == 2 * n * 1000000 - 2 * kb <= 1000000 /\ 2 * kb - 2 * n * 1000000 <= 1000000
GB(n) == Str(n) \o <<" ", "G", "B">>
Plain(smp, kb) == smp.before = <<>> /\ smp.kb = kb /\ smp.gap = <<" ">> /\ smp.unit = U_kB
RamGeneral ==
    pc = "parsed" =>
        IF HasOccurrence(sample)
        THEN \E n \in 0..(FirstKB(sample) \div 1000000 + 1) :
                Nearest(n, FirstKB(sample)) /\ parsed = GB(n)
        ELSE parsed = None

\* C9 as amended: the result is "<N> GB" with N the first occurrence's integer
\* times 10^-6 rounded to the nearest integer, absence without an occurrence;
\* "2000000 kB" yields "2 GB" and "16384 kB" yields "0 GB".
C9_RamAmount ==
    /\ RamGeneral
    /\ (pc = "parsed" /\ Plain(sample, 2000000)) => parsed = GB(2)
    /\ (pc = "parsed" /\ Plain(sample, 16384)) => parsed = GB(0)
C9_Witness ==
    /\ pc = "parsed"
    /\ Plain(sample, 16384)
    /\ parsed = GB(0)

\* C9: the result is "<N> GB" with N the first occurrence's integer times
\* 10^-6 rounded to the nearest integer, absence without an occurrence;
\* "2000000 kB" yields "2 GB" and "16384 kB" yields "16 GB".
C9_AsClaimed ==
    /\ RamGeneral
    /\ (pc = "parsed" /\ Plain(sample, 2000000)) => parsed = GB(2)
    /\ (pc = "parsed" /\ Plain(sample, 16384)) => parsed = GB(16)

\* C10: a host that lacks an attribute a predicate names fails the predicate:
\* filter_hosts leaves it out and still returns the hosts that match every
\* predicate, instead of aborting.
C10_MissingAttributeExcluded ==
    (/\ pc = "filtered"
     /\ ~fields.is_none
     /\ \E i \in 1..Len(registry) : ~HasAllAttrs(registry[i].val, fields.items))
        => /\ raised = "none"
           /\ \A h \in RegistryNames :
                 LET host == DictGet(registry, h)
                 IN  /\ ~HasAllAttrs(host, fields.items) => h \notin HostSet
                     /\ (HasAllAttrs(host, fields.items)
                            /\ has_fields(host, fields.items, 1) = "True") => h \in HostSet

====
